---- MODULE Spec2Model ----
(***************************************************************************)
(* A model of add_bookmarks_to_pdf.py: the table-of-contents recovery      *)
(* pipeline write_bookmarks = identify_toc ; parse_toc (with               *)
(* offset_first_page) ; add_bookmarks_to_pdf.                              *)
(*                                                                         *)
(* Text is modelled as it is in the program: a string is a sequence of     *)
(* characters (one-character TLA+ strings), a page is the sequence of its  *)
(* lines (page.extract_text().splitlines()), a document is the sequence of *)
(* its pages.  Indices are 1-based here and 0-based in the program; the    *)
(* places where that matters say so.                                       *)
(***************************************************************************)
EXTENDS Integers, Sequences, FiniteSets

VARIABLES
    document,     \* the pages of the PdfReader: a sequence of pages
    pc,           \* where write_bookmarks / parse_toc is
    i,            \* identify_toc: number of pages the for loop has taken
    cond_lines,   \* identify_toc: cond_lines of the page taken last
    toc_text,     \* identify_toc's accumulator, then parse_toc's argument
    toc_found,    \* identify_toc's flag
    stdout,       \* what print() has written, in order
    vlog,         \* the page indices (0-based) of ut.vprint("ToC on page i!")
    contents,     \* parse_toc: the entries appended so far
    buffer,       \* parse_toc: <<>> or <<section, title, page>>
    k,            \* parse_toc: number of TOC lines the for loop has taken
    hist,         \* parse_toc: per line taken, the loop state it left behind
    result,       \* write_bookmarks: table_of_contents (parse_toc's return value)
    outline,      \* the writer's outline items, in insertion order
    exc,          \* the exception that ended the run, or "none"
    writer,       \* add_bookmarks_to_pdf: "none", "open" or "closed"
    saved,        \* whether writer.write(save_as) has written the file
    arg,          \* Entry called on its own: the arguments of the call
    ret           \* Entry called on its own: the values returned so far

vars == <<document, pc, i, cond_lines, toc_text, toc_found, stdout, vlog,
          contents, buffer, k, hist, result, outline, exc, writer, saved, arg, ret>>

-----------------------------------------------------------------------------
(* Characters and strings *)

SP == " "
DOT == "."
DIGITS == <<"0", "1", "2", "3", "4", "5", "6", "7", "8", "9">>
LETTERS == <<"a", "b", "c", "d", "e", "f", "g", "h", "i", "j", "k", "l", "m",
             "n", "o", "p", "q", "r", "s", "t", "u", "v", "w", "x", "y", "z">>
UPPERS == <<"A", "B", "C", "D", "E", "F", "G", "H", "I", "J", "K", "L", "M",
            "N", "O", "P", "Q", "R", "S", "T", "U", "V", "W", "X", "Y", "Z">>

DigitSet == {DIGITS[d] : d \in 1..10}
IsDigit(c) == c \in DigitSet
DigitVal(c) == (CHOOSE d \in 1..10 : DIGITS[d] = c) - 1
IsUpper(c) == \E n \in 1..26 : UPPERS[n] = c
IsLetter(c) == IsUpper(c) \/ \E n \in 1..26 : LETTERS[n] = c

\* str.lower()
LowerChar(c) == IF IsUpper(c) THEN LETTERS[CHOOSE n \in 1..26 : UPPERS[n] = c] ELSE c
Lower(s) == [n \in 1..Len(s) |-> LowerChar(s[n])]

\* s[a:] of Python, for 0 <= a
Drop(s, a) == SubSeq(s, a + 1, Len(s))

\* s.startswith(p)
StartsWith(s, p) == Len(p) <= Len(s) /\ SubSeq(s, 1, Len(p)) = p

\* t in s
Contains(s, t) == \E a \in 0..(Len(s) - Len(t)) : SubSeq(s, a + 1, a + Len(t)) = t

AllDigits(s) == \A n \in 1..Len(s) : IsDigit(s[n])

\* str.strip() for the blank: int() ignores surrounding whitespace
RECURSIVE StripSpaces(_)
StripSpaces(s) ==
    IF s = <<>> THEN s
    ELSE IF Head(s) = SP THEN StripSpaces(Tail(s))
    ELSE IF s[Len(s)] = SP THEN StripSpaces(SubSeq(s, 1, Len(s) - 1))
    ELSE s

\* int(s) succeeds
IntOk(s) == StripSpaces(s) # <<>> /\ AllDigits(StripSpaces(s))

RECURSIVE DigitsVal(_)
DigitsVal(s) ==
    IF s = <<>> THEN 0 ELSE 10 * DigitsVal(SubSeq(s, 1, Len(s) - 1)) + DigitVal(s[Len(s)])

\* int(s), where it succeeds
IntOf(s) == DigitsVal(StripSpaces(s))

\* s.partition(" "): <<head, tail>>; the tail is "" when there is no blank
Partition(s) ==
    IF \E n \in 1..Len(s) : s[n] = SP
    THEN LET n == CHOOSE m \in 1..Len(s) : s[m] = SP /\ \A j \in 1..(m - 1) : s[j] # SP
         IN  <<SubSeq(s, 1, n - 1), Drop(s, n)>>
    ELSE <<s, <<>>>>

\* s.rpartition(" "): <<head, tail>>; the head is "" when there is no blank
RPartition(s) ==
    IF \E n \in 1..Len(s) : s[n] = SP
    THEN LET n == CHOOSE m \in 1..Len(s) : s[m] = SP /\ \A j \in (m + 1)..Len(s) : s[j] # SP
         IN  <<SubSeq(s, 1, n - 1), Drop(s, n)>>
    ELSE <<<<>>, s>>

\* s.split("."): never empty, "" gives [""]
RECURSIVE SplitDots(_)
SplitDots(s) ==
    IF \E n \in 1..Len(s) : s[n] = DOT
    THEN LET n == CHOOSE m \in 1..Len(s) : s[m] = DOT /\ \A j \in 1..(m - 1) : s[j] # DOT
         IN  <<SubSeq(s, 1, n - 1)>> \o SplitDots(Drop(s, n))
    ELSE <<s>>

\* " ".join(parts)
RECURSIVE JoinSpace(_)
JoinSpace(parts) ==
    IF parts = <<>> THEN <<>>
    ELSE IF Len(parts) = 1 THEN parts[1]
    ELSE parts[1] \o <<SP>> \o JoinSpace(Tail(parts))

APPENDIX == <<"a", "p", "p", "e", "n", "d", "i", "x">>

-----------------------------------------------------------------------------
(* src/utils.py is not among the sources: its three helpers follow the     *)
(* Numeric Classifier and SectionNumber Model sections of the design.      *)

\* ut.check_numeric(s): s denotes a number, a plain integer or a dotted
\* composite; after an "appendix " prefix a component may be a single letter
CheckNumeric(s) ==
    LET appendix == StartsWith(Lower(s), APPENDIX \o <<SP>>)
        parts == SplitDots(IF appendix THEN Drop(s, 9) ELSE s)
    IN  \A n \in 1..Len(parts) :
            /\ parts[n] # <<>>
            /\ \/ AllDigits(parts[n])
               \/ appendix /\ Len(parts[n]) = 1 /\ IsLetter(parts[n][1])

\* ut.strip_nonnumeric(s, leading=False, trailing=True)
RECURSIVE StripNonnumeric(_, _, _)
StripNonnumeric(s, leading, trailing) ==
    IF s = <<>> THEN s
    ELSE IF leading /\ ~IsDigit(Head(s)) THEN StripNonnumeric(Tail(s), leading, trailing)
    ELSE IF trailing /\ ~IsDigit(s[Len(s)])
         THEN StripNonnumeric(SubSeq(s, 1, Len(s) - 1), leading, trailing)
    ELSE s

\* ut.letter_to_number(s): "A" -> 1, "B" -> 2, ...; defined on a single letter
LetterOk(s) == Len(s) = 1 /\ IsLetter(s[1])
LetterToNumber(s) == CHOOSE n \in 1..26 : LETTERS[n] = LowerChar(s[1])

-----------------------------------------------------------------------------
(* class Entry *)

\* Entry.__init__, lines 15-30: the list of numbers the section string gives,
\* as <<ok, numbers>>; ok is FALSE when int() raises ValueError
SectionNumbers(section) ==
    IF StartsWith(Lower(section), APPENDIX \o <<SP>>)
    THEN LET parts == SplitDots(Drop(section, 9))
         IN  <<\A n \in 1..Len(parts) : CheckNumeric(parts[n]) \/ LetterOk(parts[n]),
               [n \in 1..Len(parts) |->
                   IF CheckNumeric(parts[n]) THEN IntOf(parts[n])
                   ELSE IF LetterOk(parts[n]) THEN LetterToNumber(parts[n]) ELSE 0]>>
    ELSE LET parts == SplitDots(StripNonnumeric(section, TRUE, TRUE))
         IN  <<\A n \in 1..Len(parts) : IntOk(parts[n]),
               [n \in 1..Len(parts) |-> IF IntOk(parts[n]) THEN IntOf(parts[n]) ELSE 0]>>

\* the padding with the zeros put in front
RECURSIVE PadZerosFront(_)
PadZerosFront(nums) == IF Len(nums) < 3 THEN PadZerosFront(<<0>> \o nums) ELSE nums

\* Entry.__init__, lines 32-33: while len(section) < 3: section.append(0)
RECURSIVE PadZeros(_)
PadZeros(nums) == IF Len(nums) < 3 THEN PadZeros(Append(nums, 0)) ELSE nums

\* Entry(section, title, page) returns (rather than raises ValueError)
EntryOk(section, title, page) == IntOk(page) /\ SectionNumbers(section)[1]

\* Entry(section, title, page), where it returns
Entry(section, title, page) ==
    LET nums == PadZeros(SectionNumbers(section)[2])
    IN  [title |-> title,
         page |-> IntOf(page),
         appendix |-> StartsWith(Lower(section), APPENDIX \o <<SP>>),
         chapter |-> nums[1],
         section |-> nums[2],
         subsection |-> nums[3]]

-----------------------------------------------------------------------------
(* split_line and clean_buffer *)

\* split_line(line) = <<section, title, page>>
SplitLine(line) ==
    LET p1 == Partition(line)
        p2 == Partition(p1[2])
        isApp == Lower(p1[1]) = APPENDIX
        section == IF isApp THEN <<"A", "p", "p", "e", "n", "d", "i", "x", SP>> \o p2[1]
                   ELSE p1[1]
        r == RPartition(IF isApp THEN p2[2] ELSE p1[2])
    IN  <<section, r[1], r[2]>>

\* clean_buffer without the strip
CleanBufferNoStrip(b) == SplitLine(b[1] \o <<SP>> \o b[2] \o <<SP>> \o b[3])

\* clean_buffer(buffer)
CleanBuffer(b) ==
    SplitLine(StripNonnumeric(b[1] \o <<SP>> \o b[2] \o <<SP>> \o b[3], FALSE, TRUE))

-----------------------------------------------------------------------------
(* identify_toc *)

\* line 104: a first matching page with fewer lines than this is skipped
MinFirstPageLines == 10

\* bool(re.match(r"^.*\D\d", line)): somewhere in the line a digit follows a
\* character that is not a digit (the pattern is anchored at the start only)
MatchesShape(line) ==
    \E n \in 1..(Len(line) - 1) : ~IsDigit(line[n]) /\ IsDigit(line[n + 1])

\* line 99
CondLines(all_lines) == SelectSeq(all_lines, MatchesShape)

\* line 102 with >= for >
PassesThresholdOrEqual(all_lines) == 4 * Len(CondLines(all_lines)) >= 3 * Len(all_lines)

\* line 102: len(cond_lines) > 0.75 * len(all_lines); 0.75 * n is exact in
\* binary floating point, so the test is 4 * len(cond_lines) > 3 * len(all_lines)
PassesThreshold(all_lines) == 4 * Len(CondLines(all_lines)) > 3 * Len(all_lines)

Printed(msg) == stdout' = Append(stdout, msg)

\* what the for loop of identify_toc does with every page it takes
TakePage ==
    /\ pc = "identify"
    /\ i < Len(document)
    /\ i' = i + 1
    /\ cond_lines' = CondLines(document[i + 1])
    /\ UNCHANGED <<document, contents, buffer, k, hist, result, outline, writer, saved, arg, ret, exc>>

\* line 91-93
IdentifyStart ==
    /\ pc = "start"
    /\ Printed("Scanning for table of contents...")
    /\ pc' = "identify"
    /\ UNCHANGED <<document, i, cond_lines, toc_text, toc_found, vlog,
                   contents, buffer, k, hist, result, outline, writer, saved, arg, ret, exc>>

\* lines 102-110, the page is appended
TocAccept ==
    /\ TakePage
    /\ PassesThreshold(document[i + 1])
    /\ ~(~toc_found /\ Len(document[i + 1]) < MinFirstPageLines)
    /\ vlog' = vlog \cup {i}
    /\ toc_text' = toc_text \o document[i + 1]
    /\ toc_found' = TRUE
    /\ UNCHANGED <<pc, stdout>>

\* lines 102-110 without the test of line 104: the short page is appended
TocSkipShortAppends ==
    /\ TakePage
    /\ PassesThreshold(document[i + 1])
    /\ ~toc_found /\ Len(document[i + 1]) < MinFirstPageLines
    /\ vlog' = vlog \cup {i}
    /\ toc_text' = toc_text \o document[i + 1]
    /\ toc_found' = TRUE
    /\ UNCHANGED <<pc, stdout>>

\* lines 102-108, the continue
TocSkipShort ==
    /\ TakePage
    /\ PassesThreshold(document[i + 1])
    /\ ~toc_found /\ Len(document[i + 1]) < MinFirstPageLines
    /\ vlog' = vlog \cup {i}
    /\ UNCHANGED <<pc, stdout, toc_text, toc_found>>

\* lines 102 and 114, neither branch taken
TocMiss ==
    /\ TakePage
    /\ ~PassesThreshold(document[i + 1])
    /\ ~toc_found
    /\ UNCHANGED <<pc, stdout, vlog, toc_text, toc_found>>

\* lines 114-115 without the break: the scan goes on
TocBreakGoesOn ==
    /\ TakePage
    /\ ~PassesThreshold(document[i + 1])
    /\ toc_found
    /\ UNCHANGED <<pc, stdout, vlog, toc_text, toc_found>>

\* lines 114-115, the break, and the return of line 119
TocBreak ==
    /\ TakePage
    /\ ~PassesThreshold(document[i + 1])
    /\ toc_found
    /\ pc' = "identified"
    /\ UNCHANGED <<stdout, vlog, toc_text, toc_found>>

\* lines 116-119 without the print
TocExhaustedSilent ==
    /\ pc = "identify"
    /\ i = Len(document)
    /\ pc' = "identified"
    /\ UNCHANGED <<document, i, cond_lines, toc_text, toc_found, stdout, vlog,
                   contents, buffer, k, hist, result, outline, writer, saved, arg, ret, exc>>

\* lines 116-119: the loop ran out of pages
TocExhausted ==
    /\ pc = "identify"
    /\ i = Len(document)
    /\ Printed("No table of contents found!")
    /\ pc' = "identified"
    /\ UNCHANGED <<document, i, cond_lines, toc_text, toc_found, vlog,
                   contents, buffer, k, hist, result, outline, writer, saved, arg, ret, exc>>

-----------------------------------------------------------------------------
(* parse_toc *)

\* lines 126-129
ParseStart ==
    /\ pc = "identified"
    /\ Printed("Parsing table of contents...")
    /\ contents' = <<>>
    /\ buffer' = <<>>
    /\ k' = 0
    /\ hist' = <<>>
    /\ pc' = "parse"
    /\ UNCHANGED <<document, i, cond_lines, toc_text, toc_found, vlog, result, outline, writer, saved, arg, ret, exc>>

\* line 131
Line == SplitLine(toc_text[k + 1])

\* line 132: the subject of the match statement
Case == <<buffer # <<>>, CheckNumeric(Line[1]), CheckNumeric(Line[3])>>

TakeLine ==
    /\ pc = "parse"
    /\ k < Len(toc_text)
    /\ k' = k + 1
    /\ UNCHANGED <<document, i, cond_lines, toc_text, toc_found, stdout, vlog, result, outline, writer, saved, arg, ret>>

\* the iteration ends with contents c and buffer b
Iterated(c, b) ==
    /\ contents' = c
    /\ buffer' = b
    /\ hist' = Append(hist, [n |-> Len(c), buf |-> b, ok |-> TRUE])
    /\ UNCHANGED <<pc, exc>>

\* the ValueError swallowed: the loop goes on
RaisedSwallowed(c) ==
    /\ contents' = c
    /\ buffer' = buffer
    /\ hist' = Append(hist, [n |-> Len(c), buf |-> buffer, ok |-> FALSE])
    /\ UNCHANGED <<pc, exc>>

\* Entry() raises ValueError in the iteration, contents being c by then
Raised(c) ==
    /\ contents' = c
    /\ buffer' = buffer
    /\ hist' = Append(hist, [n |-> Len(c), buf |-> buffer, ok |-> FALSE])
    /\ pc' = "raised"
    /\ exc' = "ValueError"

\* f"{buffer[1]} {buffer[2]} {section} {title}"
Merged == buffer[2] \o <<SP>> \o buffer[3] \o <<SP>> \o Line[1] \o <<SP>> \o Line[2]

\* ParseSimple taking the line for the start of a multi-line entry as well
ParseSimpleBuffers ==
    /\ TakeLine
    /\ Case = <<FALSE, TRUE, TRUE>>
    /\ IF EntryOk(Line[1], Line[2], Line[3])
       THEN Iterated(Append(contents, Entry(Line[1], Line[2], Line[3])), Line)
       ELSE Raised(contents)

\* lines 134-136
ParseSimple ==
    /\ TakeLine
    /\ Case = <<FALSE, TRUE, TRUE>>
    /\ IF EntryOk(Line[1], Line[2], Line[3])
       THEN Iterated(Append(contents, Entry(Line[1], Line[2], Line[3])), buffer)
       ELSE Raised(contents)

\* lines 139-141
ParseOpen ==
    /\ TakeLine
    /\ Case = <<FALSE, TRUE, FALSE>>
    /\ Iterated(contents, Line)

\* ParseContinue forgetting what the buffer held
ParseContinueForgets ==
    /\ TakeLine
    /\ Case = <<TRUE, FALSE, FALSE>>
    /\ Iterated(contents, <<buffer[1], Line[1] \o <<SP>> \o Line[2], Line[3]>>)

\* lines 142-144
ParseContinue ==
    /\ TakeLine
    /\ Case = <<TRUE, FALSE, FALSE>>
    /\ Iterated(contents, <<buffer[1], Merged, Line[3]>>)

\* ParseTerminate without line 148
ParseTerminateKeeps ==
    /\ TakeLine
    /\ Case = <<TRUE, FALSE, TRUE>>
    /\ IF EntryOk(buffer[1], Merged, Line[3])
       THEN Iterated(Append(contents, Entry(buffer[1], Merged, Line[3])), buffer)
       ELSE Raised(contents)

\* lines 145-148
ParseTerminate ==
    /\ TakeLine
    /\ Case = <<TRUE, FALSE, TRUE>>
    /\ IF EntryOk(buffer[1], Merged, Line[3])
       THEN Iterated(Append(contents, Entry(buffer[1], Merged, Line[3])), <<>>)
       ELSE Raised(contents)

\* lines 149-160
ParseRepair ==
    /\ TakeLine
    /\ Case = <<TRUE, TRUE, TRUE>>
    /\ LET b == CleanBuffer(buffer)
       IN  IF ~EntryOk(b[1], b[2], b[3]) THEN Raised(contents)
           ELSE IF ~EntryOk(Line[1], Line[2], Line[3])
                THEN Raised(Append(contents, Entry(b[1], b[2], b[3])))
           ELSE Iterated(Append(Append(contents, Entry(b[1], b[2], b[3])),
                                Entry(Line[1], Line[2], Line[3])), <<>>)

\* the repair that drops the buffered entry
ParseRepairOpenDrops ==
    /\ TakeLine
    /\ Case = <<TRUE, TRUE, FALSE>>
    /\ Iterated(contents, Line)

\* lines 161-164
ParseRepairOpen ==
    /\ TakeLine
    /\ Case = <<TRUE, TRUE, FALSE>>
    /\ LET b == CleanBuffer(buffer)
       IN  IF ~EntryOk(b[1], b[2], b[3]) THEN Raised(contents)
           ELSE Iterated(Append(contents, Entry(b[1], b[2], b[3])), Line)

\* lines 166-174: no case matches
ParseSkip ==
    /\ TakeLine
    /\ Case[1] = FALSE /\ Case[2] = FALSE
    /\ Iterated(contents, buffer)

-----------------------------------------------------------------------------
(* offset_first_page, called by the return statement of parse_toc *)

\* line 77: " ".join(page.extract_text().splitlines()[:3])
PageHead(page) == JoinSpace(SubSeq(page, 1, IF Len(page) < 3 THEN Len(page) ELSE 3))

\* line 79, for the page of index p - 1
TitleOn(p) == Contains(PageHead(document[p]), contents[1].title)

\* lines 80-81
Shifted(c, delta) == [n \in 1..Len(c) |-> [c[n] EXCEPT !.page = @ + delta]]

ParseEnd ==
    /\ pc = "parse"
    /\ k = Len(toc_text)
    /\ UNCHANGED <<document, i, cond_lines, toc_text, toc_found, stdout, vlog,
                   buffer, k, hist, outline, writer, saved, arg, ret>>

\* line 79 with an empty list: contents[0] raises IndexError on the first page
OffsetRaise ==
    /\ ParseEnd
    /\ document # <<>> /\ contents = <<>>
    /\ pc' = "raised"
    /\ exc' = "IndexError"
    /\ UNCHANGED <<contents, result>>

\* the shift by the page's 1-based number
OffsetHitOneBased ==
    /\ ParseEnd
    /\ contents # <<>>
    /\ \E p \in 1..Len(document) :
          /\ TitleOn(p)
          /\ \A q \in 1..(p - 1) : ~TitleOn(q)
          /\ contents' = Shifted(contents, p - 1)
          /\ result' = [kind |-> "list", val |-> contents']
    /\ pc' = "parsed"
    /\ UNCHANGED exc

\* lines 79-82: the first page whose head holds the first title
OffsetHit ==
    /\ ParseEnd
    /\ contents # <<>>
    /\ \E p \in 1..Len(document) :
          /\ TitleOn(p)
          /\ \A q \in 1..(p - 1) : ~TitleOn(q)
          /\ contents' = Shifted(contents, (p - 1) - 1)
          /\ result' = [kind |-> "list", val |-> contents']
    /\ pc' = "parsed"
    /\ UNCHANGED exc

\* a miss that returns the list as it is
OffsetMissReturnsList ==
    /\ ParseEnd
    /\ document = <<>> \/ (contents # <<>> /\ \A p \in 1..Len(document) : ~TitleOn(p))
    /\ result' = [kind |-> "list", val |-> contents]
    /\ pc' = "parsed"
    /\ UNCHANGED <<contents, exc>>

\* the loop of line 76 ends without a return: the function returns None
OffsetMiss ==
    /\ ParseEnd
    /\ document = <<>> \/ (contents # <<>> /\ \A p \in 1..Len(document) : ~TitleOn(p))
    /\ result' = [kind |-> "None", val |-> <<>>]
    /\ pc' = "parsed"
    /\ UNCHANGED <<contents, exc>>

-----------------------------------------------------------------------------
(* Entry.__str__ and add_bookmarks_to_pdf *)

\* str(n) for an integer
RECURSIVE NatStr(_)
NatStr(n) == IF n < 10 THEN <<DIGITS[n + 1]>> ELSE NatStr(n \div 10) \o <<DIGITS[(n % 10) + 1]>>
IntStr(n) == IF n < 0 THEN <<"-">> \o NatStr(0 - n) ELSE NatStr(n)

\* the tail without the closing parenthesis
StrTailBare(e) ==
    <<SP, "-", SP>> \o e.title \o <<SP, "(", "p", "a", "g", "e", SP>> \o IntStr(e.page)

\* " - {title} (page {page})"
StrTail(e) ==
    <<SP, "-", SP>> \o e.title \o <<SP, "(", "p", "a", "g", "e", SP>> \o IntStr(e.page) \o <<")">>

\* Entry.__str__
EntryStr(e) ==
    IF e.appendix
    THEN <<"[", "U", "N", "H", "A", "N", "D", "L", "E", "D", SP,
           "A", "P", "P", "E", "N", "D", "I", "X", "]">>
    ELSE IF e.subsection # 0
    THEN IntStr(e.chapter) \o <<DOT>> \o IntStr(e.section) \o <<DOT>> \o IntStr(e.subsection)
         \o StrTail(e)
    ELSE IF e.section # 0
    THEN IntStr(e.chapter) \o <<DOT>> \o IntStr(e.section) \o StrTail(e)
    ELSE <<"C", "h", DOT, SP>> \o IntStr(e.chapter) \o StrTail(e)

\* lines 181-184
ChapterLevel(c) ==
    LET keep(e) == ~(e.section # 0 \/ e.subsection # 0 \/ e.appendix)
    IN  SelectSeq(c, keep)

\* lines 185-191: one list per chapter-level entry
SectionLevel(c) ==
    [n \in 1..Len(ChapterLevel(c)) |->
        LET keep(e) == /\ e.chapter = ChapterLevel(c)[n].chapter
                       /\ e.section # 0
                       /\ ~(e.subsection # 0 \/ e.appendix)
        IN  SelectSeq(c, keep)]

\* lines 192-202: per chapter-level entry, one list per entry of its section list
SubsectionLevel(c) ==
    [n \in 1..Len(ChapterLevel(c)) |->
        LET chapter == ChapterLevel(c)[n]
            ofChapter(sec) == sec.chapter = chapter.chapter
            sections == SelectSeq(SectionLevel(c)[n], ofChapter)
        IN  [m \in 1..Len(sections) |->
                LET keep(e) == /\ e.chapter = chapter.chapter
                               /\ e.section = sections[m].section
                               /\ e.subsection # 0
                               /\ ~e.appendix
                IN  SelectSeq(c, keep)]]

\* writer.add_outline_item(str(entry), entry.page, parent): the handle of an
\* item is its position in the outline, 0 stands for no parent
Item(e, parent) == [label |-> EntryStr(e), page |-> e.page, parent |-> parent]

AddSubsectionsAtRoot(items, subs, section_mark) ==
    items \o [n \in 1..Len(subs) |-> Item(subs[n], 0)]

\* lines 213-215
AddSubsections(items, subs, section_mark) ==
    items \o [n \in 1..Len(subs) |-> Item(subs[n], section_mark)]

\* lines 210-215, from the j-th section of chapter n on
RECURSIVE AddSections(_, _, _, _, _)
AddSections(items, c, n, j, chapter_mark) ==
    IF j > Len(SectionLevel(c)[n]) THEN items
    ELSE LET withSection == Append(items, Item(SectionLevel(c)[n][j], chapter_mark))
         IN  AddSections(AddSubsections(withSection, SubsectionLevel(c)[n][j], Len(withSection)),
                         c, n, j + 1, chapter_mark)

\* lines 207-215, from the n-th chapter on
RECURSIVE AddChapters(_, _, _)
AddChapters(items, c, n) ==
    IF n > Len(ChapterLevel(c)) THEN items
    ELSE LET withChapter == Append(items, Item(ChapterLevel(c)[n], 0))
         IN  AddChapters(AddSections(withChapter, c, n, 1, Len(withChapter)), c, n + 1)

\* line 180, and line 218 when the except clause runs
BookmarksPrinted(failed) ==
    stdout' = IF failed
              THEN stdout \o <<"Adding bookmarks to PDF...", "An error occurred: ...">>
              ELSE Append(stdout, "Adding bookmarks to PDF...")

AddBookmarksEnter ==
    /\ pc = "parsed"
    /\ UNCHANGED <<document, i, cond_lines, toc_text, toc_found, vlog,
                   contents, buffer, k, hist, result, arg, ret>>

\* lines 181-184 with contents None: iterating None raises TypeError
AddBookmarksRaise ==
    /\ AddBookmarksEnter
    /\ result.kind = "None"
    /\ BookmarksPrinted(FALSE)
    /\ pc' = "raised"
    /\ exc' = "TypeError"
    /\ UNCHANGED <<outline, writer, saved>>

\* lines 204-205: writer.append raises.  The call stands before the try
\* statement, so neither the except clause nor the finally clause runs
AddBookmarksAppendRaise ==
    /\ AddBookmarksEnter
    /\ result.kind = "list"
    /\ BookmarksPrinted(FALSE)
    /\ writer' = "open"
    /\ pc' = "raised"
    /\ exc' = "AppendError"
    /\ UNCHANGED <<outline, saved>>

\* lines 206-215 and 217-220: the add_outline_item call after n items raises
AddBookmarksItemFails ==
    /\ AddBookmarksEnter
    /\ result.kind = "list"
    /\ LET items == AddChapters(<<>>, result.val, 1)
       IN  \E n \in 0..(Len(items) - 1) : outline' = SubSeq(items, 1, n)
    /\ BookmarksPrinted(TRUE)
    /\ writer' = "closed"
    /\ pc' = "done"
    /\ UNCHANGED <<saved, exc>>

\* lines 206-220: writer.write raises
AddBookmarksWriteFails ==
    /\ AddBookmarksEnter
    /\ result.kind = "list"
    /\ outline' = AddChapters(<<>>, result.val, 1)
    /\ BookmarksPrinted(TRUE)
    /\ writer' = "closed"
    /\ pc' = "done"
    /\ UNCHANGED <<saved, exc>>

\* lines 181-216 and 219-220: nothing raises
AddBookmarks ==
    /\ AddBookmarksEnter
    /\ result.kind = "list"
    /\ outline' = AddChapters(<<>>, result.val, 1)
    /\ BookmarksPrinted(FALSE)
    /\ saved' = TRUE
    /\ writer' = "closed"
    /\ pc' = "done"
    /\ UNCHANGED exc

-----------------------------------------------------------------------------
(* The documents and TOC texts the model runs on *)

MaxPages == 3
MaxLines == 3

\* lines of text
Ln1a1 == <<"1", SP, "a", SP, "1">>                        \* "1 a 1"
Ln11a3 == <<"1", DOT, "1", SP, "a", SP, "3">>             \* "1.1 a 3"
Ln111a5 == <<"1", DOT, "1", DOT, "1", SP, "a", SP, "5">>  \* "1.1.1 a 5"
Ln21ab == <<"2", DOT, "1", SP, "a", SP, "b">>             \* "2.1 a b"
Ln2a7b == <<"2", SP, "a", SP, "7", "b">>                  \* "2 a 7b"
Lnbc == <<"b", SP, "c">>                                  \* "b c"
Lnba5 == <<"b", SP, "a", SP, "5">>                        \* "b a 5"
Ln1a11 == <<"1", SP, "a", SP, "1", DOT, "1">>             \* "1 a 1.1"
Lnc11 == <<"c", SP, "1", DOT, "1">>                       \* "c 1.1"
LnAppAb2 == <<"A", "p", "p", "e", "n", "d", "i", "x", SP, "A", SP, "b", SP, "2">>
Lna == <<"a">>                                            \* "a"
Ln21a4 == <<"2", DOT, "1", SP, "a", SP, "4">>             \* "2.1 a 4"
Ln3a5b == <<"3", SP, "a", SP, "5", "b">>                  \* "3 a 5b"
Ln4a6c == <<"4", SP, "a", SP, "6", "c">>                  \* "4 a 6c"
Lnc2 == <<"c", SP, "2">>                                  \* "c 2"

ParseLines == {Ln1a1, Ln11a3, Ln111a5, Ln21ab, Ln2a7b, Lnbc, Lnba5, Ln1a11, Lnc11}

RECURSIVE SeqsUpTo(_, _)
SeqsUpTo(S, n) ==
    IF n = 0 THEN {<<>>}
    ELSE {<<>>} \cup {<<x>> \o t : x \in S, t \in SeqsUpTo(S, n - 1)}

Rep(line, n) == [m \in 1..n |-> line]

\* a table of contents page of ten lines, nine of them of the line shape
PToc == <<Ln1a1, Ln21ab, Lnc2, Lnba5, Ln2a7b, Ln21a4, Ln3a5b, Lnbc, Ln4a6c, LnAppAb2>>
\* nine lines of the line shape, the last with a dotted page token
PShort9 == Rep(Ln1a1, 8) \o Rep(Ln1a11, 1)
PShort54 == Rep(Ln1a1, 4) \o Rep(Lnbc, 1)
PFail43 == Rep(Ln1a1, 3) \o Rep(Lnbc, 1)
PEmpty == <<>>
\* a TOC page that starts with three lines of other text
PLate == Rep(Lnbc, 3) \o Rep(Ln1a1, 10)

Pages == {PToc, PLate, PShort9, PShort54, PFail43, PEmpty}
Documents == SeqsUpTo(Pages, MaxPages)

ParseDocuments == {<<<<Lnbc>>, <<Lnbc>>, <<Lnbc, Lna>>>>}

\* the entry lists add_bookmarks_to_pdf is called on directly: the entries
\* Entry builds from these section strings, the n-th with page n
MaxEntries == 4
Title == <<"t">>
Sec1 == <<"1">>
Sec2 == <<"2">>
Sec11 == <<"1", DOT, "1">>
Sec21 == <<"2", DOT, "1">>
Sec111 == <<"1", DOT, "1", DOT, "1">>
Sec121 == <<"1", DOT, "2", DOT, "1">>
SecAppA == <<"A", "p", "p", "e", "n", "d", "i", "x", SP, "A">>
BookmarkSections == {Sec1, Sec2, Sec11, Sec21, Sec111, Sec121, SecAppA}
EntryLists ==
    {[n \in 1..Len(q) |-> Entry(q[n], Title, NatStr(n))] :
        q \in SeqsUpTo(BookmarkSections, MaxEntries)}

\* the arguments Entry is called on directly: one to three numbers up to
\* MaxNum for the section string, and a page number
MaxNum == 10
EntryPages == {7, 12}
NumberLists == {q \in SeqsUpTo(0..MaxNum, 3) : q # <<>>}
EntryArgs == {[numbers |-> q, page |-> p] : q \in NumberLists, p \in EntryPages}

\* "a.b.c" for <<a, b, c>>
RECURSIVE SectionText(_)
SectionText(nums) ==
    IF Len(nums) = 1 THEN NatStr(nums[1])
    ELSE NatStr(nums[1]) \o <<DOT>> \o SectionText(Tail(nums))

-----------------------------------------------------------------------------
(* write_bookmarks: the whole pipeline on a document *)

Init ==
    /\ document \in Documents
    /\ pc = "start"
    /\ i = 0
    /\ cond_lines = <<>>
    /\ toc_text = <<>>
    /\ toc_found = FALSE
    /\ stdout = <<>>
    /\ vlog = {}
    /\ contents = <<>>
    /\ buffer = <<>>
    /\ k = 0
    /\ hist = <<>>
    /\ result = [kind |-> "unset", val |-> <<>>]
    /\ outline = <<>>
    /\ exc = "none"
    /\ writer = "none"
    /\ saved = FALSE
    /\ arg = <<>>
    /\ ret = <<>>

IdentifyToc == IdentifyStart \/ TocAccept \/ TocSkipShort \/ TocMiss \/ TocBreak \/ TocExhausted

ParseToc ==
    \/ ParseStart
    \/ ParseSimple \/ ParseOpen \/ ParseContinue \/ ParseTerminate
    \/ ParseRepair \/ ParseRepairOpen \/ ParseSkip
    \/ OffsetRaise \/ OffsetHit \/ OffsetMiss

AddBookmarksToPdf ==
    \/ AddBookmarksRaise \/ AddBookmarksAppendRaise \/ AddBookmarksItemFails
    \/ AddBookmarksWriteFails \/ AddBookmarks

Next == IdentifyToc \/ ParseToc \/ AddBookmarksToPdf

Spec == Init /\ [][Next]_vars

(* parse_toc called on a TOC text and a document of its own *)

InitParse ==
    /\ document \in ParseDocuments
    /\ toc_text \in SeqsUpTo(ParseLines, MaxLines)
    /\ pc = "identified"
    /\ i = 0
    /\ cond_lines = <<>>
    /\ toc_found = FALSE
    /\ stdout = <<>>
    /\ vlog = {}
    /\ contents = <<>>
    /\ buffer = <<>>
    /\ k = 0
    /\ hist = <<>>
    /\ result = [kind |-> "unset", val |-> <<>>]
    /\ outline = <<>>
    /\ exc = "none"
    /\ writer = "none"
    /\ saved = FALSE
    /\ arg = <<>>
    /\ ret = <<>>

SpecParse == InitParse /\ [][ParseToc]_vars

(* add_bookmarks_to_pdf called on an entry list, or on None *)

InitBookmarks ==
    /\ result \in {[kind |-> "None", val |-> <<>>]}
                     \cup {[kind |-> "list", val |-> c] : c \in EntryLists}
    /\ pc = "parsed"
    /\ document = <<>>
    /\ i = 0
    /\ cond_lines = <<>>
    /\ toc_text = <<>>
    /\ toc_found = FALSE
    /\ stdout = <<>>
    /\ vlog = {}
    /\ contents = <<>>
    /\ buffer = <<>>
    /\ k = 0
    /\ hist = <<>>
    /\ outline = <<>>
    /\ exc = "none"
    /\ writer = "none"
    /\ saved = FALSE
    /\ arg = <<>>
    /\ ret = <<>>

SpecBookmarks == InitBookmarks /\ [][AddBookmarksToPdf]_vars

(* Entry called on a section string and a page, its string form taken,     *)
(* split by split_line, and Entry called again on the tokens.  ret grows   *)
(* to <<entry, str(entry), split_line(str(entry)), entry again>>.          *)

InitEntry ==
    /\ arg \in EntryArgs
    /\ ret = <<>>
    /\ pc = "construct"
    /\ document = <<>>
    /\ i = 0
    /\ cond_lines = <<>>
    /\ toc_text = <<>>
    /\ toc_found = FALSE
    /\ stdout = <<>>
    /\ vlog = {}
    /\ contents = <<>>
    /\ buffer = <<>>
    /\ k = 0
    /\ hist = <<>>
    /\ result = [kind |-> "unset", val |-> <<>>]
    /\ outline = <<>>
    /\ exc = "none"
    /\ writer = "none"
    /\ saved = FALSE

\* the tokens of the next Entry call
ArgTokens ==
    IF ret = <<>> THEN <<SectionText(arg.numbers), Title, NatStr(arg.page)>> ELSE ret[3]

EntryFrame ==
    UNCHANGED <<document, i, cond_lines, toc_text, toc_found, stdout, vlog, contents,
                buffer, k, hist, result, outline, writer, saved, arg>>

\* Entry(section, title, page), lines 11-36
Construct ==
    /\ pc = "construct"
    /\ LET t == ArgTokens
       IN  IF EntryOk(t[1], t[2], t[3])
           THEN /\ ret' = Append(ret, Entry(t[1], t[2], t[3]))
                /\ pc' = "entry"
                /\ UNCHANGED exc
           ELSE /\ pc' = "raised"
                /\ exc' = "ValueError"
                /\ UNCHANGED ret
    /\ EntryFrame

\* str(entry), lines 38-47
Render ==
    /\ pc = "entry"
    /\ Len(ret) = 1
    /\ ret' = Append(ret, EntryStr(ret[1]))
    /\ pc' = "text"
    /\ UNCHANGED exc
    /\ EntryFrame

\* split_line(str(entry)), lines 55-64
Resplit ==
    /\ pc = "text"
    /\ ret' = Append(ret, SplitLine(ret[2]))
    /\ pc' = "construct"
    /\ UNCHANGED exc
    /\ EntryFrame

EntryRoundTrip == Construct \/ Render \/ Resplit

SpecEntry == InitEntry /\ [][EntryRoundTrip]_vars

-----------------------------------------------------------------------------
(* Properties of parse_toc.  hist[m] is the loop state the m-th TOC line    *)
(* left behind; the entries are compared before offset_first_page shifts   *)
(* their pages, that is while result is unset.                             *)

BufAfter(m) == IF m = 0 THEN <<>> ELSE hist[m].buf
CountAfter(m) == IF m = 0 THEN 0 ELSE hist[m].n
Tokens(m) == SplitLine(toc_text[m])
SectionNumeric(m) == CheckNumeric(Tokens(m)[1])
PageNumeric(m) == CheckNumeric(Tokens(m)[3])
Uncalibrated == result.kind = "unset"

\* the chapter, section and subsection a dotted section token stands for,
\* read off the token directly
Dots(s) == {n \in 1..Len(s) : s[n] = DOT}
TripleOf(s) ==
    LET body == IF StartsWith(Lower(s), APPENDIX \o <<SP>>) THEN Drop(s, 9) ELSE s
        d1 == IF Dots(body) = {} THEN Len(body) + 1
              ELSE CHOOSE n \in Dots(body) : \A m \in Dots(body) : n <= m
        rest == Drop(body, d1)
        d2 == IF Dots(rest) = {} THEN Len(rest) + 1
              ELSE CHOOSE n \in Dots(rest) : \A m \in Dots(rest) : n <= m
        last == Drop(rest, d2)
        d3 == IF Dots(last) = {} THEN Len(last) + 1
              ELSE CHOOSE n \in Dots(last) : \A m \in Dots(last) : n <= m
        num(t) == IF t = <<>> THEN 0
                  ELSE IF AllDigits(t) THEN DigitsVal(t)
                  ELSE CHOOSE n \in 1..26 : LETTERS[n] = LowerChar(t[1])
    IN  <<num(SubSeq(body, 1, d1 - 1)), num(SubSeq(rest, 1, d2 - 1)), num(SubSeq(last, 1, d3 - 1))>>

Numbers(e) == <<e.chapter, e.section, e.subsection>>

\* lines j..m are a multi-line group: an opening line, continuation lines, a
\* terminating line
IsGroup(j, m) ==
    /\ j < m
    /\ SectionNumeric(j) /\ ~PageNumeric(j)
    /\ \A x \in (j + 1)..(m - 1) : ~SectionNumeric(x) /\ ~PageNumeric(x)
    /\ ~SectionNumeric(m) /\ PageNumeric(m)

\* one entry stands for the group j..m
GroupMerged(j, m) ==
    /\ hist[m].ok
    /\ CountAfter(m) = CountAfter(j - 1) + 1
    /\ BufAfter(m) = <<>>
    /\ LET e == contents[CountAfter(m)]
       IN  /\ Numbers(e) = TripleOf(Tokens(j)[1])
           /\ e.page = DigitsVal(Tokens(m)[3])
           /\ Contains(e.title, Tokens(j)[2]) /\ Contains(e.title, Tokens(j)[3])
           /\ \A x \in (j + 1)..(m - 1) : \A f \in 1..3 : Contains(e.title, Tokens(x)[f])
           /\ Contains(e.title, Tokens(m)[1]) /\ Contains(e.title, Tokens(m)[2])

\* C1 as stated: a multi-line group that starts on an empty buffer always
\* ends as exactly one entry (the opening line's section, the terminating
\* line's page, a title holding every fragment) and an empty buffer.
C1_AnyGroupMerged ==
    Uncalibrated =>
        \A j \in 1..Len(hist), m \in 1..Len(hist) :
            (IsGroup(j, m) /\ BufAfter(j - 1) = <<>>) => GroupMerged(j, m)

\* C1 as amended: the same, for a group whose terminating page token is a
\* plain integer; a page token the classifier takes for numeric without
\* int() accepting it ("1.1") makes Entry raise ValueError, nothing is
\* appended and parsing stops.
C1_GroupMerged ==
    Uncalibrated =>
        \A j \in 1..Len(hist), m \in 1..Len(hist) :
            (IsGroup(j, m) /\ BufAfter(j - 1) = <<>>) =>
                IF AllDigits(Tokens(m)[3])
                THEN GroupMerged(j, m)
                ELSE ~hist[m].ok /\ CountAfter(m) = CountAfter(j - 1) /\ pc = "raised"

C1_Witness ==
    /\ Uncalibrated
    /\ Len(hist) = 3
    /\ IsGroup(1, 3)
    /\ hist[3].ok
    /\ Len(contents) = 1

\* the buffer as one text, and what is left of a text once the characters
\* after its last digit are gone
BufferText(b) == b[1] \o <<SP>> \o b[2] \o <<SP>> \o b[3]
LastDigit(t) == IF \E n \in 1..Len(t) : IsDigit(t[n])
                THEN CHOOSE n \in 1..Len(t) : IsDigit(t[n]) /\ \A x \in (n + 1)..Len(t) : ~IsDigit(t[x])
                ELSE 0
UpToLastDigit(t) == SubSeq(t, 1, LastDigit(t))
\* the digits a text ends in
EndDigits(t) ==
    IF t = <<>> \/ ~IsDigit(t[Len(t)]) THEN <<>>
    ELSE LET a == CHOOSE n \in 1..Len(t) :
                      /\ \A x \in n..Len(t) : IsDigit(t[x])
                      /\ (n = 1 \/ ~IsDigit(t[n - 1]))
         IN  SubSeq(t, a, Len(t))

\* the buffer text ends, behind its section, in a page number of its own
HoldsPage(b) ==
    LET t == UpToLastDigit(BufferText(b))
        d == EndDigits(t)
    IN  /\ Len(t) - Len(d) > Len(b[1])
        /\ t[Len(t) - Len(d)] = SP

\* the m-th line found the buffer b and was handled as the repair cases say
Repaired(m) ==
    LET b == BufAfter(m - 1)
        n0 == CountAfter(m - 1)
    IN  /\ hist[m].ok
        /\ CountAfter(m) = n0 + (IF PageNumeric(m) THEN 2 ELSE 1)
        /\ Numbers(contents[n0 + 1]) = TripleOf(b[1])
        /\ contents[n0 + 1].page = DigitsVal(EndDigits(UpToLastDigit(BufferText(b))))
        /\ IF PageNumeric(m)
           THEN /\ BufAfter(m) = <<>>
                /\ Numbers(contents[n0 + 2]) = TripleOf(Tokens(m)[1])
                /\ contents[n0 + 2].title = Tokens(m)[2]
                /\ contents[n0 + 2].page = DigitsVal(Tokens(m)[3])
           ELSE BufAfter(m) = Tokens(m)

\* C2 as stated: a line with a numeric section token that finds the buffer
\* non-empty always makes one entry of the cleaned buffer and is then handled
\* as on an empty buffer.
C2_AnyRepair ==
    Uncalibrated =>
        \A m \in 1..Len(hist) :
            (BufAfter(m - 1) # <<>> /\ SectionNumeric(m)) => Repaired(m)

\* C2 as amended: so it is when the cleaned buffer still ends in a page number
\* and the current line's page token, if numeric, is a plain integer;
\* otherwise Entry raises ValueError and parsing stops, with no entry appended
\* when the buffer is at fault and one when the current line is.
C2_Repair ==
    Uncalibrated =>
        \A m \in 1..Len(hist) :
            (BufAfter(m - 1) # <<>> /\ SectionNumeric(m)) =>
                IF ~HoldsPage(BufAfter(m - 1))
                THEN ~hist[m].ok /\ pc = "raised" /\ CountAfter(m) = CountAfter(m - 1)
                ELSE IF PageNumeric(m) /\ ~AllDigits(Tokens(m)[3])
                THEN ~hist[m].ok /\ pc = "raised" /\ CountAfter(m) = CountAfter(m - 1) + 1
                ELSE Repaired(m)

C2_Witness ==
    /\ Uncalibrated
    /\ \E m \in 1..Len(hist) :
          /\ BufAfter(m - 1) # <<>> /\ SectionNumeric(m) /\ PageNumeric(m)
          /\ hist[m].ok
          /\ CountAfter(m) = CountAfter(m - 1) + 2

\* the first m lines all have a numeric section token and a numeric page token
AllComplete(m) == \A x \in 1..m : SectionNumeric(x) /\ PageNumeric(x)

\* they gave one entry each, in line order
OnePerLine(m) ==
    /\ \A x \in 1..m : hist[x].ok /\ CountAfter(x) = x /\ BufAfter(x) = <<>>
    /\ \A x \in 1..m :
          /\ Numbers(contents[x]) = TripleOf(Tokens(x)[1])
          /\ contents[x].title = Tokens(x)[2]
          /\ contents[x].page = DigitsVal(Tokens(x)[3])

\* the scenario "1 Introduction 1", "1.1 Background 3", "1.1.1 Prior Work 5"
ScenarioHolds ==
    (toc_text = <<Ln1a1, Ln11a3, Ln111a5>> /\ Len(hist) = 3) =>
        /\ Len(contents) = 3
        /\ Numbers(contents[1]) = <<1, 0, 0>> /\ contents[1].page = 1
        /\ Numbers(contents[2]) = <<1, 1, 0>> /\ contents[2].page = 3
        /\ Numbers(contents[3]) = <<1, 1, 1>> /\ contents[3].page = 5

\* C3 as stated: lines that all have a numeric section token and a numeric
\* page token give exactly one entry per line, in line order, with the line's
\* numbers and page, and leave the buffer empty after every line.
C3_AnyCompleteLines ==
    Uncalibrated =>
        \A m \in 1..Len(hist) : AllComplete(m) => OnePerLine(m)

\* C3 as amended: so it is when every page token is a plain integer; the
\* first line whose page token is numeric for the classifier but not for
\* int() ("1.1") makes Entry raise ValueError, and parsing stops with the
\* entries of the lines before it.
C3_CompleteLines ==
    Uncalibrated =>
        /\ ScenarioHolds
        /\ \A m \in 1..Len(hist) :
              AllComplete(m) =>
                  IF \A x \in 1..m : AllDigits(Tokens(x)[3])
                  THEN OnePerLine(m)
                  ELSE /\ ~hist[Len(hist)].ok /\ pc = "raised"
                       /\ ~AllDigits(Tokens(Len(hist))[3])
                       /\ Len(contents) = Len(hist) - 1

C3_Witness ==
    /\ Uncalibrated
    /\ toc_text = <<Ln1a1, Ln11a3, Ln111a5>>
    /\ Len(hist) = 3
    /\ Len(contents) = 3

\* C4: the buffer does not leak into the entry list.  Whenever a line has
\* added entries and the iteration has ended, the buffer is empty or is the
\* current line; while one buffer stays pending no entry is added; and what
\* parse_toc returns holds the entries of the loop and nothing of a buffer
\* that was still pending after the last line.
C4_NoLeak ==
    /\ \A m \in 1..Len(hist) :
          (hist[m].ok /\ CountAfter(m) > CountAfter(m - 1)) =>
              BufAfter(m) = <<>> \/ BufAfter(m) = Tokens(m)
    /\ \A j \in 1..Len(hist), m \in 1..Len(hist) :
          (/\ j <= m
           /\ BufAfter(j) = Tokens(j)
           /\ \A x \in (j + 1)..m : hist[x].ok /\ BufAfter(x) # <<>> /\ ~SectionNumeric(x))
          => CountAfter(m) = CountAfter(j)
    /\ (pc = "parsed" /\ result.kind = "list") =>
          /\ Len(result.val) = CountAfter(Len(toc_text))
          /\ result.val = contents
          /\ \A j \in 1..Len(toc_text) :
                (/\ BufAfter(j) = Tokens(j)
                 /\ \A x \in (j + 1)..Len(toc_text) : BufAfter(x) # <<>> /\ ~SectionNumeric(x))
                => Len(result.val) = CountAfter(j)

C4_Witness ==
    /\ pc = "parsed"
    /\ result.kind = "list"
    /\ buffer # <<>>
    /\ Len(result.val) = 1
    /\ Len(toc_text) = 3

-----------------------------------------------------------------------------
(* Properties of identify_toc and of write_bookmarks *)

Returned == pc \notin {"start", "identify"}

\* the lines of pages a..b of the document
RECURSIVE LinesOf(_, _)
LinesOf(a, b) == IF a > b THEN <<>> ELSE document[a] \o LinesOf(a + 1, b)

\* C5: what identify_toc has gathered is, in page and line order, all lines of
\* one run of consecutive pages that pass the threshold; a page that fails
\* after the run began ends the scan there, and nothing of that page or of a
\* later one is ever added, also when a later page passes again.
C5_ContiguousRun ==
    IF ~toc_found THEN toc_text = <<>>
    ELSE LET b == IF PassesThreshold(document[i]) THEN i ELSE i - 1
         IN  /\ \E a \in 1..b :
                   /\ toc_text = LinesOf(a, b)
                   /\ \A p \in a..b : PassesThreshold(document[p])
             /\ b < i => Returned

C5_Witness ==
    /\ Returned
    /\ toc_found
    /\ i = 2
    /\ Len(document) = 3
    /\ PassesThreshold(document[3]) /\ Len(document[3]) >= MinFirstPageLines
    /\ toc_text = document[1]

\* the pages taken so far that pass the threshold with ten lines or more
LongMatches == {q \in 1..i : PassesThreshold(document[q]) /\ Len(document[q]) >= MinFirstPageLines}

\* C6: the text gathered starts with the first page taken that passes the
\* threshold with at least ten lines; as long as no such page was taken,
\* pages that pass with fewer lines leave the text empty and the flag unset
\* and do not end the scan, which stops only when the pages run out.
C6_ShortFirstSkipped ==
    IF LongMatches = {}
    THEN /\ ~toc_found
         /\ toc_text = <<>>
         /\ Returned => i = Len(document)
    ELSE LET q == CHOOSE x \in LongMatches : \A y \in LongMatches : x <= y
         IN  /\ toc_found
             /\ StartsWith(toc_text, document[q])
             /\ \E b \in q..i : toc_text = LinesOf(q, b)

C6_Witness ==
    /\ Returned
    /\ Len(document) = 3
    /\ PassesThreshold(document[1]) /\ Len(document[1]) < MinFirstPageLines
    /\ PassesThreshold(document[3]) /\ Len(document[3]) < MinFirstPageLines
    /\ toc_text = document[2] \o document[3]

Matching(page) == Cardinality({n \in 1..Len(page) : MatchesShape(page[n])})

EndsInPageNumber(line) ==
    /\ line # <<>>
    /\ IsDigit(line[Len(line)])
    /\ \E n \in 1..Len(line) : ~IsDigit(line[n])

\* C8: the lines counted on a page are exactly those that end in a digit
\* after a non-digit character; a line whose last character is not a digit
\* is never counted.
C8_CountsLinesEndingInDigit ==
    i >= 1 => cond_lines = SelectSeq(document[i], EndsInPageNumber)

\* C9: when identify_toc has taken every page and the flag was never set, it
\* has printed "No table of contents found!" and returns no line.
C9_NotFoundReported ==
    (Returned /\ ~toc_found) =>
        /\ i = Len(document)
        /\ Len(stdout) >= 2
        /\ stdout[2] = "No table of contents found!"
        /\ toc_text = <<>>

C9_Witness ==
    /\ Returned
    /\ ~toc_found
    /\ Len(document) = 3
    /\ vlog # {}

\* C10: on a document with pages none of which passes the threshold,
\* write_bookmarks never ends in an exception.
C10_NoTocStopsGracefully ==
    (document # <<>> /\ \A p \in 1..Len(document) : ~PassesThreshold(document[p]))
        => exc = "none"

-----------------------------------------------------------------------------
(* Properties of the hierarchy add_bookmarks_to_pdf builds *)

\* how often the record e stands in the sequence q
Occ(q, e) == Cardinality({n \in 1..Len(q) : q[n] = e})

\* how often e stands in the chapter-level list, the section-level groups
\* and the subsection-level groups of the entry list c together
GroupOcc(c, e) ==
    LET N == 1..Len(c)
    IN  Occ(ChapterLevel(c), e)
        + Cardinality({y \in N \X N :
              /\ y[1] <= Len(SectionLevel(c))
              /\ y[2] <= Len(SectionLevel(c)[y[1]])
              /\ SectionLevel(c)[y[1]][y[2]] = e})
        + Cardinality({y \in N \X N \X N :
              /\ y[1] <= Len(SubsectionLevel(c))
              /\ y[2] <= Len(SubsectionLevel(c)[y[1]])
              /\ y[3] <= Len(SubsectionLevel(c)[y[1]][y[2]])
              /\ SubsectionLevel(c)[y[1]][y[2]][y[3]] = e})

\* C11: once the hierarchy is built from an entry list, every non-appendix
\* entry stands in the chapter-level list and the groups together exactly as
\* often as in the list (once, when the entries differ), and an appendix
\* entry in none of them.
C11_EveryEntryInOneGroup ==
    (writer # "none") =>
        \A x \in 1..Len(result.val) :
            GroupOcc(result.val, result.val[x]) =
                IF result.val[x].appendix THEN 0 ELSE Occ(result.val, result.val[x])

-----------------------------------------------------------------------------
(* Properties of offset_first_page *)

\* the page (1-based) the loop of line 76 returns on
FirstTitlePage ==
    CHOOSE p \in 1..Len(document) : TitleOn(p) /\ \A q \in 1..(p - 1) : ~TitleOn(q)

\* offset_first_page is about to run on a non-empty list
Calibrating == pc = "parse" /\ k = Len(toc_text) /\ contents # <<>>

\* C12: when some page's first three lines hold the first entry's title,
\* offset_first_page returns the list it was given, each page moved once by
\* i - 1 for the 0-based index i of the first such page, and length, order
\* and the other fields as they were.
C12_OffsetAddsDelta ==
    [][(Calibrating /\ \E p \in 1..Len(document) : TitleOn(p)) =>
          /\ pc' = "parsed"
          /\ exc' = "none"
          /\ result' = [kind |-> "list", val |-> contents']
          /\ Len(contents') = Len(contents)
          /\ \A n \in 1..Len(contents) :
                /\ contents'[n].page = contents[n].page + ((FirstTitlePage - 1) - 1)
                /\ [contents'[n] EXCEPT !.page = contents[n].page] = contents[n]]_vars

C12_Witness ==
    /\ pc = "parsed"
    /\ result.kind = "list"
    /\ Len(result.val) >= 2
    /\ Len(document) = 3
    /\ ~TitleOn(1) /\ ~TitleOn(2) /\ TitleOn(3)
    /\ result.val[1].page = 2

\* C13: when no page's first three lines hold the first entry's title,
\* offset_first_page returns None, raises nothing and leaves every entry as
\* it was.
C13_MissReturnsNothing ==
    [][(Calibrating /\ \A p \in 1..Len(document) : ~TitleOn(p)) =>
          /\ pc' = "parsed"
          /\ exc' = "none"
          /\ result'.kind = "None"
          /\ contents' = contents]_vars

C13_Witness ==
    /\ pc = "parsed"
    /\ result.kind = "None"
    /\ exc = "none"
    /\ document # <<>>
    /\ Len(contents) >= 2

-----------------------------------------------------------------------------
(* Properties of the writer calls of add_bookmarks_to_pdf *)

\* C14: no failure of a writer call ends add_bookmarks_to_pdf in an
\* exception, and a writer that was acquired is closed when the function is
\* left, however it is left.
C14_WriterFailuresCaught ==
    (pc \in {"done", "raised"} /\ writer # "none") => (exc = "none" /\ writer = "closed")

\* some line's Entry construction raised
Failed == \E m \in 1..Len(hist) : ~hist[m].ok

\* C15: once an Entry construction has raised in parse_toc, that line is the
\* last one taken, the run has ended in the ValueError, parse_toc has
\* returned nothing, and no outline item is emitted and no file written.
C15_FailureAborts ==
    Failed =>
        /\ \A m \in 1..Len(hist) : ~hist[m].ok <=> m = Len(hist)
        /\ k = Len(hist)
        /\ pc = "raised"
        /\ exc = "ValueError"
        /\ result.kind = "unset"
        /\ outline = <<>>
        /\ writer = "none"
        /\ ~saved

C15_Witness ==
    /\ Failed
    /\ pc = "raised"
    /\ Len(hist) < Len(toc_text)
    /\ Len(contents) >= 2

\* the first token of an item's label, and what follows it
LabelHead(item) == Partition(item.label)[1]
LabelRest(item) == Partition(item.label)[2]

\* the level an item's label shows: 0 for "Ch. c", else the number of dots
Level(item) ==
    IF LabelHead(item) = <<"C", "h", DOT>> THEN 0 ELSE Cardinality(Dots(LabelHead(item)))

\* the chapter, section and subsection numbers an item's label shows
LabelNumbers(item) ==
    IF Level(item) = 0 THEN TripleOf(Partition(LabelRest(item))[1])
    ELSE TripleOf(LabelHead(item))

\* C18: in the outline, in insertion order: a chapter item has no parent; a
\* section item's parent is the last chapter item before it, of the same
\* chapter number; a subsection item's parent is the last section item
\* before it, with no chapter item between, of the same chapter and section
\* numbers; no item lies deeper than that.
C18_HierarchyOrder ==
    \A n \in 1..Len(outline) :
        LET item == outline[n]
            p == item.parent
        IN  /\ Level(item) \in {0, 1, 2}
            /\ p < n
            /\ Level(item) = 0 <=> p = 0
            /\ Level(item) = 1 =>
                  /\ Level(outline[p]) = 0
                  /\ LabelNumbers(outline[p])[1] = LabelNumbers(item)[1]
                  /\ \A m \in (p + 1)..(n - 1) : Level(outline[m]) # 0
            /\ Level(item) = 2 =>
                  /\ Level(outline[p]) = 1
                  /\ LabelNumbers(outline[p])[1] = LabelNumbers(item)[1]
                  /\ LabelNumbers(outline[p])[2] = LabelNumbers(item)[2]
                  /\ \A m \in (p + 1)..(n - 1) : Level(outline[m]) = 2
            /\ p # 0 /\ outline[p].parent # 0 => outline[outline[p].parent].parent = 0

C18_Witness ==
    /\ pc = "done"
    /\ saved
    /\ Len(outline) = 4
    /\ outline[1].parent = 0
    /\ outline[2].parent = 1
    /\ outline[3].parent = 2
    /\ outline[4].parent = 0

-----------------------------------------------------------------------------
(* Properties of Entry and its string form *)

\* C16: Entry called on the section string of one to three numbers returns,
\* with those numbers as chapter, section and subsection, zero for each one
\* the string lacks, and appendix false.
C16_TotalTriple ==
    /\ pc = "raised" => ret # <<>>
    /\ ret # <<>> =>
          LET q == arg.numbers
              e == ret[1]
          IN  /\ e.chapter = q[1]
              /\ e.section = (IF Len(q) >= 2 THEN q[2] ELSE 0)
              /\ e.subsection = (IF Len(q) = 3 THEN q[3] ELSE 0)
              /\ e.appendix = FALSE

C16_Witness ==
    /\ ret # <<>>
    /\ arg.numbers = <<10, 2>>
    /\ ret[1].chapter = 10
    /\ ret[1].section = 2
    /\ ret[1].subsection = 0

\* the string form was split again and what followed is over
RoundTripOver == Len(ret) >= 3 /\ pc # "construct"

\* C17 as stated: the Entry built from the tokens of the string form has the
\* chapter, section, subsection and page of the Entry rendered.
C17_RoundTrip ==
    RoundTripOver =>
        /\ Len(ret) = 4
        /\ Numbers(ret[4]) = Numbers(ret[1])
        /\ ret[4].page = ret[1].page

\* C17: split_line gives back the page of the string form with the closing
\* parenthesis on it, so Entry on the tokens raises ValueError and returns
\* nothing; the section token is the dotted number of an entry below chapter
\* level and "Ch." for a chapter-level entry.
C17_PageTokenKeepsParenthesis ==
    Len(ret) >= 3 =>
        LET e == ret[1]
            t == ret[3]
        IN  /\ t[3] = NatStr(e.page) \o <<")">>
            /\ t[1] = IF e.subsection # 0 THEN SectionText(Numbers(e))
                      ELSE IF e.section # 0 THEN SectionText(<<e.chapter, e.section>>)
                      ELSE <<"C", "h", DOT>>
            /\ Len(ret) = 3
            /\ pc # "construct" => (pc = "raised" /\ exc = "ValueError")

C17_Witness ==
    /\ RoundTripOver
    /\ exc = "ValueError"
    /\ ret[1].chapter = 10
    /\ ret[1].section = 2
    /\ ret[1].page = 12

-----------------------------------------------------------------------------
(* Properties of the loops of parse_toc and identify_toc *)

\* the lines up to the m-th whose section token is numeric
NumericLines(m) == Cardinality({x \in 1..m : SectionNumeric(x)})

\* C19: after each line taken with no Entry construction failed so far, the
\* entries appended plus one for a pending buffer are as many as the lines
\* taken whose section token is numeric; and a line with a non-numeric
\* section token taken with the buffer empty leaves the entries as they were.
C19_LoopCount ==
    \A m \in 1..Len(hist) :
        (\A x \in 1..m : hist[x].ok) =>
            /\ CountAfter(m) + (IF BufAfter(m) # <<>> THEN 1 ELSE 0) = NumericLines(m)
            /\ (~SectionNumeric(m) /\ BufAfter(m - 1) = <<>>) =>
                  CountAfter(m) = CountAfter(m - 1)

C19_Witness ==
    /\ Len(hist) = 3
    /\ \A x \in 1..3 : hist[x].ok
    /\ CountAfter(3) = 2
    /\ BufAfter(3) # <<>>
    /\ BufAfter(2) # <<>>
    /\ NumericLines(3) = 3

\* C20: identify_toc has printed "No table of contents found!" only if it
\* returns no line and never set the flag.
C20_DiagnosticOnlyWhenEmpty ==
    (\E n \in 1..Len(stdout) : stdout[n] = "No table of contents found!") =>
        (toc_text = <<>> /\ ~toc_found)

====
